---- MODULE Spec2Model ----
(***************************************************************************)
(* The SBT trait-comparison front end: connect wallet, compare off-chain   *)
(* and on-chain traits, update on chain.  Three revisions of the script    *)
(* are in the repository; the variable rev says which one is loaded:       *)
(*   "app"  src/public/app.js      debounce + busy flag + single-shot click *)
(*   "p0"   src/unnamed/part_000   batched update_traits, single-shot click *)
(*   "p1"   src/unnamed/part_001   busy flag, click handler bound once      *)
(***************************************************************************)
EXTENDS Integers, Sequences, FiniteSets

(***************************************************************************)
(* JavaScript values.  A value is a record [t, n, s]: t is the type tag, n *)
(* the number of a "number", s the characters of a "string".  A string is  *)
(* a sequence of one-character strings; a word that is no number is also   *)
(* written as one opaque token (<<"abc">>, <<"Leafling">>).                *)
(***************************************************************************)
Undef == [t |-> "undefined", n |-> 0, s |-> <<>>]

NullV == [t |-> "null", n |-> 0, s |-> <<>>]

NaN == [t |-> "NaN", n |-> 0, s |-> <<>>]

Num(k) == [t |-> "number", n |-> k, s |-> <<>>]

Str(q) == [t |-> "string", n |-> 0, s |-> q]

Digits == <<"0", "1", "2", "3", "4", "5", "6", "7", "8", "9">>

IsDigit(c) == \E i \in 1..10 : Digits[i] = c

DigitVal(c) == (CHOOSE i \in 1..10 : Digits[i] = c) - 1

\* v is falsy: the left operand of (v || 0) is dropped
Falsy(v) ==
  \/ v.t \in {"undefined", "null", "NaN"}
  \/ v.t = "number" /\ v.n = 0
  \/ v.t = "string" /\ v.s = <<>>

\* v || 0
OrZero(v) == IF Falsy(v) THEN Num(0) ELSE v

\* v ?? d
Coalesce(v, d) == IF v.t \in {"undefined", "null"} THEN d ELSE v

RECURSIVE ParseDigits(_, _)
\* the value of the decimal digit string q, read left to right with acc so far
ParseDigits(q, acc) ==
  IF q = <<>> THEN acc
  ELSE ParseDigits(Tail(q), 10 * acc + DigitVal(Head(q)))

\* Number(v): the empty string is 0, a digit string its value, any other string NaN
Number(v) ==
  CASE v.t = "number" -> v
    [] v.t = "NaN" -> NaN
    [] v.t = "undefined" -> NaN
    [] v.t = "null" -> Num(0)
    [] OTHER ->
         IF \A i \in 1..Len(v.s) : IsDigit(v.s[i])
         THEN Num(ParseDigits(v.s, 0))
         ELSE NaN

RECURSIVE DigitsOf(_)
\* the decimal digits of the natural number k
DigitsOf(k) ==
  IF k < 10 THEN <<Digits[k + 1]>>
  ELSE Append(DigitsOf(k \div 10), Digits[(k % 10) + 1])

\* String(v), as the characters of the result
String(v) ==
  CASE v.t = "string" -> v.s
    [] v.t = "number" -> IF v.n < 0 THEN <<"-">> \o DigitsOf(-v.n) ELSE DigitsOf(v.n)
    [] v.t = "NaN" -> <<"NaN">>
    [] v.t = "null" -> <<"null">>
    [] OTHER -> <<"undefined">>

\* a < k for a number a and a literal k: false when a is NaN
Lt(a, k) == a.t = "number" /\ a.n < k

\* a === b for two results of Number(): NaN equals nothing
NumStrictEq(a, b) == a.t = "number" /\ b.t = "number" /\ a.n = b.n

(***************************************************************************)
(* Tiers                                                                   *)
(***************************************************************************)
TierKeys ==
  <<"leafling", "vine-crawler", "canopy-dweller", "rainkeeper", "jaguar-fang",
    "spirit-of-the-jungle">>

TierNames ==
  <<"Leafling", "Vine Crawler", "Canopy Dweller", "Rainkeeper", "Jaguar Fang",
    "Spirit of the Jungle">>

Tier(i) == [key |-> TierKeys[i], name |-> TierNames[i]]

\* tierFromScore with its first threshold test written <= instead of <
tierFromScoreOffByOne(score) ==
  LET s == Number(OrZero(score)) IN
    IF s.t = "number" /\ s.n <= 500 THEN Tier(1)
    ELSE IF Lt(s, 1500) THEN Tier(2)
    ELSE IF Lt(s, 3000) THEN Tier(3)
    ELSE IF Lt(s, 5000) THEN Tier(4)
    ELSE IF Lt(s, 10000) THEN Tier(5)
    ELSE Tier(6)

tierFromScore(score) ==
  LET s == Number(OrZero(score)) IN
    IF Lt(s, 500) THEN Tier(1)
    ELSE IF Lt(s, 1500) THEN Tier(2)
    ELSE IF Lt(s, 3000) THEN Tier(3)
    ELSE IF Lt(s, 5000) THEN Tier(4)
    ELSE IF Lt(s, 10000) THEN Tier(5)
    ELSE Tier(6)

(***************************************************************************)
(* Configuration and data                                                  *)
(***************************************************************************)
\* minimum gap between two update clicks that get past the debounce (ms)
DEBOUNCE_MS == 800

\* bound of the model: the asynchronous operations outstanding at one time
\* (requestWalletInfo, fetch and sendTransaction calls in flight, pending timers)
MaxInFlight == 2

\* the clock advances in steps of TICK ms; an age (Date.now() minus a timestamp) is
\* kept up to DEBOUNCE_MS, above which the code cannot tell two ages apart
TICK == DEBOUNCE_MS \div 2

Older(age) == IF age + TICK < DEBOUNCE_MS THEN age + TICK ELSE DEBOUNCE_MS

Revs == {"app", "p0", "p1"}

Addr == {"addrA", "addrB"}

KEYS ==
  [app |-> <<"Score", "Tier", "Stake Duration", "DEX Volume", "Total Sent XIAN">>,
   p0 |-> <<"Score", "Tier", "Stake Duration", "DEX Volume", "Pulse Influence",
            "Transaction Volume", "Bridge Volume", "Volume Played">>,
   p1 |-> <<"Score", "Tier", "Stake Duration", "DEX Volume", "Game Wins",
            "Bots Created", "Pulse Influence">>]

KeySet(r) == {KEYS[r][i] : i \in 1..Len(KEYS[r])}

AllKeys == KeySet("app") \cup KeySet("p0") \cup KeySet("p1")

\* UI_TO_CHAIN[uiKey] || uiKey, with the table written as the identity
UI_TO_CHAIN_Identity(uiKey) == uiKey

UI_TO_CHAIN(uiKey) ==
  CASE uiKey = "Transaction Volume" -> "Trx Volume"
    [] uiKey = "Bridge Volume" -> "Xian Bridged"
    [] OTHER -> uiKey

\* an offchain/onchain mapping: the keys not given are absent
Traits(score, tier, dex, trx) ==
  [k \in AllKeys |->
     CASE k = "Score" -> score
       [] k = "Tier" -> tier
       [] k = "DEX Volume" -> dex
       [] k = "Transaction Volume" -> trx
       [] OTHER -> Undef]

(***************************************************************************)
(* The bodies CompareAPI answers with.  diffs is the set of keys of the    *)
(* payload's diffs object (computed by the server).                        *)
(*   scoreDiff  Score 120 vs 100, Transaction Volume 7 vs 5, same Tier,    *)
(*              DEX Volume absent vs 0                                     *)
(*   same       every tracked key identical                                *)
(*   volDiff    only DEX Volume differs                                    *)
(*   strScore   Score "600" (a string) vs 600, Tier "Leafling" vs          *)
(*              "Vine Crawler"; the server reports a Score diff            *)
(*   error      an error object: no address, no traits                     *)
(***************************************************************************)
Bodies ==
  [scoreDiff |->
     [offchain |-> Traits(Num(120), Str(<<"Leafling">>), Undef, Num(7)),
      onchain |-> Traits(Num(100), Str(<<"Leafling">>), Num(0), Num(5)),
      diffs |-> {"Score", "Transaction Volume"}],
   same |->
     [offchain |-> Traits(Num(100), Str(<<"Leafling">>), Undef, Undef),
      onchain |-> Traits(Num(100), Str(<<"Leafling">>), Undef, Undef),
      diffs |-> {}],
   volDiff |->
     [offchain |-> Traits(Num(100), Str(<<"Leafling">>), Num(7), Undef),
      onchain |-> Traits(Num(100), Str(<<"Leafling">>), Num(5), Undef),
      diffs |-> {"DEX Volume"}],
   strScore |->
     [offchain |-> Traits(Str(<<"6", "0", "0">>), Str(<<"Leafling">>), Undef, Undef),
      onchain |-> Traits(Num(600), Str(<<"Vine Crawler">>), Undef, Undef),
      diffs |-> {"Score", "Tier"}],
   error |->
     [offchain |-> Traits(Undef, Undef, Undef, Undef),
      onchain |-> Traits(Undef, Undef, Undef, Undef),
      diffs |-> {}]]

BodyNames == {"scoreDiff", "same", "volDiff", "strScore", "error"}

\* the payload answering a query for address a with body b; an error object
\* carries no address ("" stands for the absent address)
Response(a, b) == [address |-> IF b = "error" THEN "" ELSE a, body |-> b]

offchain(data) == Bodies[data.body].offchain

onchain(data) == Bodies[data.body].onchain

diffs(data) == Bodies[data.body].diffs

(***************************************************************************)
(* State                                                                   *)
(***************************************************************************)
VARIABLES
  rev,             \* which revision of the script is loaded
  walletInfo,      \* <<>> (null) or <<[address |-> a]>>
  last,            \* <<>> (null) or <<payload>>: the last compare payload
  updating,        \* re-entrancy lock (app, p1)
  sinceClick,      \* Date.now() - lastClickAt, kept up to DEBOUNCE_MS (app)
  btnUpdate,       \* [display, disabled, armed]: armed = a click listener is on the node
  btnConnectShown, \* btnConnect.style.display is not "none"
  statusEl,        \* statusEl.textContent
  tableEl,         \* [kind, data, diff]: what tableEl.innerHTML shows
  connects,        \* requestWalletInfo calls in flight, by caller: [user, update]
  fetches,         \* compare fetches in flight, per queried address
  sends,           \* sendTransaction calls in flight
  timers,          \* scheduled setTimeout(doCompare) callbacks
  out,             \* what the latest step did: [op, res, alert, names, tx, conn, arg]
  sinceInvoke,     \* time since updateOnChain was last invoked, kept up to DEBOUNCE_MS
  tierIn,          \* argument of the latest tierFromScore call of TierSpec
  tierOut,         \* <<>> or <<its result>>
  eqIn,            \* [k, a, b]: arguments of the latest equalVals call of EqSpec
  eqOut            \* <<>> or <<[equal, diff]>>: its result and the row's diff flag

vars ==
  <<rev, walletInfo, last, updating, sinceClick, btnUpdate, btnConnectShown,
    statusEl, tableEl, connects, fetches, sends, timers, out, sinceInvoke,
    tierIn, tierOut, eqIn, eqOut>>

\* the variables of the specifications of the pure functions
tierVars == <<tierIn, tierOut, eqIn, eqOut>>

\* the step's effects: alert text tag and the addresses it names, the
\* sendTransaction call made (<<>> or <<call>>), whether requestWalletInfo was called,
\* and for a doCompare the text of the address field it read (else <<>>)
Out(op, res, alert, names, tx, conn) ==
  [op |-> op, res |-> res, alert |-> alert, names |-> names, tx |-> tx, conn |-> conn,
   arg |-> <<>>]

Quiet(op, res) == Out(op, res, "", {}, <<>>, FALSE)

Alert(op, res, text) == Out(op, res, text, {}, <<>>, FALSE)

FetchCount == fetches["addrA"] + fetches["addrB"]

ConnectCount == connects.user + connects.update

InFlight == ConnectCount + FetchCount + sends + timers

\* the page after the script of revision r has run; the markup starts with
\* btnUpdate hidden and disabled, the state every doCompare puts it in first
Loaded(r) ==
  /\ rev = r
  /\ walletInfo = <<>>
  /\ last = <<>>
  /\ updating = FALSE
  /\ sinceClick = DEBOUNCE_MS
  /\ btnUpdate = [display |-> FALSE, disabled |-> TRUE, armed |-> r = "p1"]
  /\ btnConnectShown = TRUE
  /\ statusEl = IF r = "p1" THEN "No wallet detected yet. Click Connect." ELSE ""
  /\ tableEl = [kind |-> IF r = "p1" THEN "empty" ELSE "skeleton", data |-> <<>>, diff |-> {}]
  /\ connects = [user |-> 0, update |-> 0]
  /\ fetches = [a \in Addr |-> 0]
  /\ sends = 0
  /\ timers = 0
  /\ out = Quiet("load", "")
  /\ sinceInvoke = DEBOUNCE_MS

Init ==
  /\ \E r \in Revs : Loaded(r)
  /\ tierIn = Undef
  /\ tierOut = <<>>
  /\ eqIn = [k |-> "Score", a |-> Undef, b |-> Undef]
  /\ eqOut = <<>>

(***************************************************************************)
(* Value equality and the rendered table                                   *)
(***************************************************************************)
isNumericKey(k) == k # "Tier"

\* equalVals comparing the string forms for every key
equalValsAsStrings(k, a, b) ==
  String(Coalesce(a, Str(<<>>))) = String(Coalesce(b, Str(<<>>)))

equalVals(k, a, b) ==
  IF isNumericKey(k)
  THEN NumStrictEq(Number(OrZero(a)), Number(OrZero(b)))
  ELSE String(Coalesce(a, Str(<<>>))) = String(Coalesce(b, Str(<<>>)))

\* pretty(k, v) for k = "Score": the value itself, or a dash when it is absent
\* (the formats of the other keys are only displayed, never compared)
prettyScore(v) ==
  IF v.t \in {"undefined", "null"} \/ (v.t = "string" /\ v.s = <<>>)
  THEN Str(<<"-">>)
  ELSE v

\* the diff flag of the row of key k in renderTable of part_000, for the
\* off-chain and on-chain values of k in the payload
rowDiff(k, off, on) ==
  LET d == IF isNumericKey(k) THEN Num(0) ELSE Str(<<>>)
  IN ~equalVals(k, Coalesce(off, d), Coalesce(on, d))

\* renderTable(data): the keys whose row carries the class "diff"
renderTable(r, data) ==
  LET off == offchain(data)
      on == onchain(data)
  IN CASE r = "app" ->
            {k \in KeySet(r) :
               k = "Score" /\ String(prettyScore(off[k])) # String(prettyScore(on[k]))}
       [] r = "p1" ->
            {k \in KeySet(r) :
               k = "Score" /\ String(Coalesce(off[k], Str(<<>>)))
                                # String(Coalesce(on[k], Str(<<>>)))}
       [] OTHER ->
            {k \in KeySet(r) : rowDiff(k, off[k], on[k])}

(***************************************************************************)
(* connectWallet                                                           *)
(***************************************************************************)
\* a click on btnConnect: connectWallet runs up to its await
ConnectClick ==
  /\ btnConnectShown
  /\ InFlight < MaxInFlight
  /\ connects' = [connects EXCEPT !.user = @ + 1]
  /\ out' = Out("connect", "requested", "", {}, <<>>, TRUE)
  /\ UNCHANGED <<rev, walletInfo, last, updating, sinceClick, btnUpdate,
                 btnConnectShown, statusEl, tableEl, fetches, sends, timers,
                 sinceInvoke, tierVars>>

(***************************************************************************)
(* doCompare                                                               *)
(***************************************************************************)
\* what the user may have typed into the address field, as characters: nothing,
\* a blank, an address, an address between blanks
FieldInputs == {<<>>, <<" ">>, <<"addrA">>, <<" ", "addrB", " ">>}

RECURSIVE trimStart(_)
trimStart(q) == IF q # <<>> /\ Head(q) = " " THEN trimStart(Tail(q)) ELSE q

RECURSIVE trimEnd(_)
trimEnd(q) == IF q # <<>> /\ q[Len(q)] = " " THEN trimEnd(SubSeq(q, 1, Len(q) - 1)) ELSE q

\* q.trim(), as the string it leaves: "" or the address typed
trim(q) == LET t == trimEnd(trimStart(q)) IN IF t = <<>> THEN "" ELSE t[1]

\* the address resolution with the session address tried before the field
addrOfSessionFirst(field) ==
  IF walletInfo # <<>> THEN walletInfo[1].address ELSE trim(field)

\* (addrInput.value.trim() || walletInfo?.address || "").trim() for the field text
addrOf(field) ==
  IF trim(field) # "" THEN trim(field)
  ELSE IF walletInfo # <<>> THEN walletInfo[1].address ELSE ""

\* doCompare up to its await; field is addrInput.value
doCompare(field, op) ==
  LET addr == addrOf(field)
  IN IF addr = ""
     THEN /\ out' = [Alert(op, "noAddress", "Enter an address or connect wallet first.")
                      EXCEPT !.arg = field]
          /\ UNCHANGED <<statusEl, btnUpdate, tableEl, fetches>>
     ELSE /\ op = "timer" \/ InFlight < MaxInFlight
          /\ statusEl' = "Comparing..."
          /\ btnUpdate' = [btnUpdate EXCEPT !.display = FALSE, !.disabled = TRUE]
          /\ tableEl' = [kind |-> IF rev = "p1" THEN "empty" ELSE "loading",
                         data |-> <<>>, diff |-> {}]
          /\ fetches' = [fetches EXCEPT ![addr] = @ + 1]
          /\ out' = [Quiet(op, "fetching") EXCEPT !.arg = field]

\* a click on btnCompare or btnRefresh
CompareClick ==
  /\ \E field \in FieldInputs : doCompare(field, "compare")
  /\ UNCHANGED <<rev, walletInfo, last, updating, sinceClick, btnConnectShown,
                 connects, sends, timers, sinceInvoke, tierVars>>

\* the callback of setTimeout(doCompare, ...)
TimerFire ==
  /\ timers > 0
  /\ timers' = timers - 1
  /\ \E field \in FieldInputs : doCompare(field, "timer")
  /\ UNCHANGED <<rev, walletInfo, last, updating, sinceClick, btnConnectShown,
                 connects, sends, sinceInvoke, tierVars>>

hasScoreDiff(data) == "Score" \in diffs(data)

walletMatches(data) == walletInfo # <<>> /\ walletInfo[1].address = data.address

\* the fetch of a compare resolves and its body parses: doCompare after its awaits
CompareResolve ==
  \E a \in Addr, b \in BodyNames :
    LET data == Response(a, b) IN
      /\ fetches[a] > 0
      /\ fetches' = [fetches EXCEPT ![a] = @ - 1]
      /\ last' = <<data>>
      /\ tableEl' = [kind |-> "rows", data |-> <<data>>, diff |-> renderTable(rev, data)]
      /\ IF hasScoreDiff(data)
         THEN /\ statusEl' = IF walletMatches(data)
                             THEN "Difference in Score"
                             ELSE "Difference in Score - Connect the same address to update."
              /\ btnUpdate' =
                   [display |-> TRUE,
                    disabled |-> ~walletMatches(data),
                    armed |-> IF rev = "p1" THEN btnUpdate.armed ELSE walletMatches(data)]
         ELSE IF rev = "p1"
              THEN /\ statusEl' = "No differences in Score."
                   /\ btnUpdate' = [btnUpdate EXCEPT !.display = FALSE, !.disabled = TRUE]
              ELSE UNCHANGED <<statusEl, btnUpdate>>
      /\ out' = Quiet("compareResolve", IF hasScoreDiff(data) THEN "scoreDiff" ELSE "noDiff")
      /\ UNCHANGED <<rev, walletInfo, updating, sinceClick, btnConnectShown,
                     connects, sends, timers, sinceInvoke, tierVars>>

\* the fetch resolves and its body parses to null: "last = data" stores null,
\* then renderTable(data) throws on data.offchain and the catch block runs
CompareResolveNull ==
  \E a \in Addr :
    /\ fetches[a] > 0
    /\ fetches' = [fetches EXCEPT ![a] = @ - 1]
    /\ last' = <<>>
    /\ statusEl' = "Failed to compare traits (API error)."
    /\ out' = Quiet("compareThrew", "apiError")
    /\ UNCHANGED <<rev, walletInfo, updating, sinceClick, btnUpdate,
                   btnConnectShown, tableEl, connects, sends, timers, sinceInvoke,
                   tierVars>>

\* the fetch rejects or the body does not parse: the catch block of doCompare
CompareReject ==
  \E a \in Addr :
    /\ fetches[a] > 0
    /\ fetches' = [fetches EXCEPT ![a] = @ - 1]
    /\ statusEl' = "Failed to compare traits (API error)."
    /\ out' = Quiet("compareReject", "apiError")
    /\ UNCHANGED <<rev, walletInfo, last, updating, sinceClick, btnUpdate,
                   btnConnectShown, tableEl, connects, sends, timers, sinceInvoke,
                   tierVars>>

(***************************************************************************)
(* updateOnChain                                                           *)
(***************************************************************************)
\* a click reaches updateOnChain: the button is shown, not disabled, and a
\* listener is on the node (bound for good in p1, single-shot in app and p0)
ClickDispatches == btnUpdate.display /\ ~btnUpdate.disabled /\ btnUpdate.armed

\* the node after the click when the listener was added without { once: true }
AfterDispatchKeepsListener(btn) == btn

\* the node after the click: a { once: true } listener is removed by its dispatch
AfterDispatch(btn) == IF rev = "p1" THEN btn ELSE [btn EXCEPT !.armed = FALSE]

\* the ownership test with the comparison dropped
ownerMismatchNever(w, l) == w.address # w.address

\* walletInfo.address !== last.address
ownerMismatch(w, l) == w.address # l.address

\* the call sendTransaction(CONTRACT, "update_trait", {key: "Score", value: newScore}, ...)
ScoreTx(l) ==
  [method |-> "update_trait",
   payload |-> [key |-> "Score",
                value |-> String(Coalesce(offchain(l)["Score"], Num(0)))]]

\* updateOnChain of app and p1 from the ownership test on, for session w, payload
\* l, button btn and status st: the new updating, button, status, sends and out
\* (op is "update" within the click's step, "updateResumed" after the awaited connect)
updateTail(op, w, l, btn, st) ==
  IF ownerMismatch(w, l)
  THEN [updating |-> updating, btn |-> btn, status |-> st, sends |-> sends,
        out |-> Out(op, "mismatch", "Connected wallet does not match",
                    {w.address, l.address}, <<>>, FALSE)]
  ELSE [updating |-> TRUE, btn |-> [btn EXCEPT !.disabled = TRUE],
        status |-> "Sending update_trait...", sends |-> sends + 1,
        out |-> Out(op, "sent", "", {}, <<ScoreTx(l)>>, FALSE)]

\* updateOnChain of app and p1 from the busy test on
updateBody ==
  IF updating
  THEN /\ out' = Quiet("update", "busy")
       /\ btnUpdate' = AfterDispatch(btnUpdate)
       /\ UNCHANGED <<updating, statusEl, sends, connects>>
  ELSE IF last = <<>> \/ last[1].address = ""
  THEN /\ out' = Alert("update", "compareFirst", "Compare first.")
       /\ btnUpdate' = AfterDispatch(btnUpdate)
       /\ UNCHANGED <<updating, statusEl, sends, connects>>
  ELSE IF walletInfo = <<>>
  THEN /\ InFlight < MaxInFlight
       /\ connects' = [connects EXCEPT !.update = @ + 1]
       /\ out' = Out("update", "awaitConnect", "", {}, <<>>, TRUE)
       /\ btnUpdate' = AfterDispatch(btnUpdate)
       /\ UNCHANGED <<updating, statusEl, sends>>
  ELSE LET r == updateTail("update", walletInfo[1], last[1], AfterDispatch(btnUpdate), statusEl) IN
         /\ r.sends = sends \/ InFlight < MaxInFlight
         /\ updating' = r.updating
         /\ btnUpdate' = r.btn
         /\ statusEl' = r.status
         /\ sends' = r.sends
         /\ out' = r.out
         /\ UNCHANGED connects

\* a click on btnUpdate, src/public/app.js
updateOnChain_app ==
  /\ rev = "app"
  /\ ClickDispatches
  /\ sinceInvoke' = 0
  /\ IF sinceClick < DEBOUNCE_MS
     THEN /\ out' = Quiet("update", "debounced")
          /\ btnUpdate' = AfterDispatch(btnUpdate)
          /\ UNCHANGED <<sinceClick, updating, statusEl, sends, connects>>
     ELSE /\ sinceClick' = 0
          /\ updateBody
  /\ UNCHANGED <<rev, walletInfo, last, btnConnectShown, tableEl, fetches,
                 timers, tierVars>>

\* a click on btnUpdate, part_001
updateOnChain_p1 ==
  /\ rev = "p1"
  /\ ClickDispatches
  /\ sinceInvoke' = 0
  /\ updateBody
  /\ UNCHANGED <<rev, walletInfo, last, sinceClick, btnConnectShown, tableEl,
                 fetches, timers, tierVars>>

\* toSet of part_000: one entry per differing key under its chain-side name,
\* then toSet["Tier"] = derivedTier
toSet(l) ==
  LET off == offchain(l)
      on == onchain(l)
      differing == {k \in KeySet("p0") : ~equalVals(k, off[k], on[k])}
      derivedTier == tierFromScore(Number(OrZero(off["Score"]))).name
      written == {UI_TO_CHAIN(k) : k \in differing}
  IN [c \in written \cup {"Tier"} |->
        IF c = "Tier" THEN <<derivedTier>>
        ELSE String(Coalesce(off[CHOOSE k \in differing : UI_TO_CHAIN(k) = c],
                             Str(<<>>)))]

\* a click on btnUpdate, part_000
updateOnChain_p0 ==
  /\ rev = "p0"
  /\ ClickDispatches
  /\ sinceInvoke' = 0
  /\ btnUpdate' = AfterDispatch(btnUpdate)
  /\ IF last = <<>> \/ walletInfo = <<>>
     THEN /\ out' = Quiet("update", "silent")
          /\ UNCHANGED <<statusEl, sends>>
     ELSE IF ownerMismatch(walletInfo[1], last[1])
     THEN /\ out' = Alert("update", "mismatch", "Connect the same wallet that owns this SBT.")
          /\ UNCHANGED <<statusEl, sends>>
     ELSE IF DOMAIN toSet(last[1]) = {}
     THEN /\ statusEl' = "Nothing to update."
          /\ out' = Quiet("update", "nothing")
          /\ UNCHANGED sends
     ELSE /\ InFlight < MaxInFlight
          /\ sends' = sends + 1
          /\ out' = Out("update", "sent", "", {},
                        <<[method |-> "update_traits",
                           payload |-> [batch |-> toSet(last[1])]]>>, FALSE)
          /\ UNCHANGED statusEl
  /\ UNCHANGED <<rev, walletInfo, last, updating, sinceClick, btnConnectShown,
                 tableEl, connects, fetches, timers, tierVars>>

\* requestWalletInfo resolves with address a: connectWallet after its await and,
\* when updateOnChain was the caller, updateOnChain after "await connectWallet()"
ConnectResolve ==
  \E a \in Addr, caller \in {"user", "update"} :
    /\ connects[caller] > 0
    /\ connects' = [connects EXCEPT ![caller] = @ - 1]
    /\ walletInfo' = <<[address |-> a]>>
    /\ btnConnectShown' = (rev = "p1" /\ btnConnectShown)
    /\ IF caller = "user"
       THEN /\ statusEl' = "Connected"
            /\ out' = Quiet("connectResolve", "connected")
            /\ UNCHANGED <<updating, btnUpdate, sends>>
       ELSE LET r == updateTail("updateResumed", [address |-> a], last[1], btnUpdate, "Connected") IN
              /\ updating' = r.updating
              /\ btnUpdate' = r.btn
              /\ statusEl' = r.status
              /\ sends' = r.sends
              /\ out' = r.out
    /\ UNCHANGED <<rev, last, sinceClick, tableEl, fetches, timers,
                   sinceInvoke, tierVars>>

\* requestWalletInfo rejects, with a catch block that also drops the session
\* (walletInfo = null)
ConnectRejectClearsSession ==
  /\ connects.user > 0
  /\ connects' = [connects EXCEPT !.user = @ - 1]
  /\ walletInfo' = <<>>
  /\ out' = Alert("connectReject", "noWallet", "Wallet not detected or not responding.")
  /\ UNCHANGED <<rev, last, updating, sinceClick, btnUpdate, btnConnectShown,
                 statusEl, tableEl, fetches, sends, timers, sinceInvoke, tierVars>>

\* requestWalletInfo rejects: the catch block of connectWallet and, when
\* updateOnChain was the caller, its "if (!walletInfo) return" and what follows
ConnectReject ==
  \E caller \in {"user", "update"} :
    /\ connects[caller] > 0
    /\ connects' = [connects EXCEPT ![caller] = @ - 1]
    /\ IF caller = "user" \/ walletInfo = <<>>
       THEN /\ out' = Alert("connectReject", "noWallet", "Wallet not detected or not responding.")
            /\ UNCHANGED <<updating, btnUpdate, statusEl, sends>>
       ELSE LET r == updateTail("updateResumed", walletInfo[1], last[1], btnUpdate, statusEl) IN
              /\ updating' = r.updating
              /\ btnUpdate' = r.btn
              /\ statusEl' = r.status
              /\ sends' = r.sends
              /\ out' = r.out
    /\ UNCHANGED <<rev, walletInfo, last, sinceClick, btnConnectShown, tableEl,
                   fetches, timers, sinceInvoke, tierVars>>

\* sendTransaction resolves, with the setTimeout(doCompare, ...) call left out
SendResolveNoRecheck ==
  /\ sends > 0
  /\ sends' = sends - 1
  /\ out' = IF rev = "p0" THEN Quiet("sendResolve", "scheduled")
            ELSE Alert("sendResolve", "scheduled", "Update submitted.")
  /\ updating' = FALSE
  /\ UNCHANGED <<rev, walletInfo, last, sinceClick, btnUpdate, btnConnectShown,
                 statusEl, tableEl, connects, fetches, timers, sinceInvoke, tierVars>>

\* sendTransaction resolves: the rest of the try block (and the finally of app, p1)
SendResolve ==
  /\ sends > 0
  /\ sends' = sends - 1
  /\ timers' = timers + 1
  /\ IF rev = "p0"
     THEN /\ out' = Quiet("sendResolve", "scheduled")
          /\ UNCHANGED updating
     ELSE /\ out' = Alert("sendResolve", "scheduled", "Update submitted.")
          /\ updating' = FALSE
  /\ UNCHANGED <<rev, walletInfo, last, sinceClick, btnUpdate, btnConnectShown,
                 statusEl, tableEl, connects, fetches, sinceInvoke, tierVars>>

\* sendTransaction rejects, with the busy flag reset only on the success path
\* (no finally block): the rejection leaves updating as it is
SendRejectKeepsLock ==
  /\ sends > 0
  /\ sends' = sends - 1
  /\ out' = IF rev = "p0" THEN Quiet("sendReject", "unhandled")
            ELSE Alert("sendReject", "failed", "Failed to send transaction.")
  /\ UNCHANGED <<rev, walletInfo, last, updating, sinceClick, btnUpdate,
                 btnConnectShown, statusEl, tableEl, connects, fetches, timers,
                 sinceInvoke, tierVars>>

\* sendTransaction rejects: catch and finally of app and p1; in p0 nothing
\* catches the rejection
SendReject ==
  /\ sends > 0
  /\ sends' = sends - 1
  /\ IF rev = "p0"
     THEN /\ out' = Quiet("sendReject", "unhandled")
          /\ UNCHANGED updating
     ELSE /\ out' = Alert("sendReject", "failed", "Failed to send transaction.")
          /\ updating' = FALSE
  /\ UNCHANGED <<rev, walletInfo, last, sinceClick, btnUpdate, btnConnectShown,
                 statusEl, tableEl, connects, fetches, timers, sinceInvoke, tierVars>>

\* time passes: TICK ms later
Tick ==
  /\ sinceClick < DEBOUNCE_MS \/ sinceInvoke < DEBOUNCE_MS
  /\ sinceClick' = Older(sinceClick)
  /\ sinceInvoke' = Older(sinceInvoke)
  /\ out' = Quiet("tick", "")
  /\ UNCHANGED <<rev, walletInfo, last, updating, btnUpdate, btnConnectShown,
                 statusEl, tableEl, connects, fetches, sends, timers, tierVars>>

Next ==
  \/ ConnectClick
  \/ ConnectResolve
  \/ ConnectReject
  \/ CompareClick
  \/ TimerFire
  \/ CompareResolve
  \/ CompareResolveNull
  \/ CompareReject
  \/ updateOnChain_app
  \/ updateOnChain_p0
  \/ updateOnChain_p1
  \/ SendResolve
  \/ SendReject
  \/ Tick

Spec == Init /\ [][Next]_vars

\* the event loop runs a timer callback that is due: a scheduled doCompare is
\* not postponed for ever
LiveSpec == Spec /\ WF_vars(TimerFire)

(***************************************************************************)
(* tierFromScore on its own: one call on an argument drawn from TierInputs *)
(***************************************************************************)
\* bound of the model: the largest numeric score tried
MaxScore == 10001

TierInputs ==
  {Num(k) : k \in 0..MaxScore}
    \cup {Undef, NullV, Str(<<>>), Str(<<"abc">>), Str(<<"7", "5", "0">>)}

TierInit ==
  /\ Loaded("app")
  /\ tierIn \in TierInputs
  /\ tierOut = <<>>
  /\ eqIn = [k |-> "Score", a |-> Undef, b |-> Undef]
  /\ eqOut = <<>>

\* applyBadge(score) up to its call of tierFromScore
applyBadge ==
  /\ tierOut = <<>>
  /\ tierOut' = <<tierFromScore(tierIn)>>
  /\ UNCHANGED <<rev, walletInfo, last, updating, sinceClick, btnUpdate,
                 btnConnectShown, statusEl, tableEl, connects, fetches, sends, timers,
                 out, sinceInvoke, tierIn, eqIn, eqOut>>

TierNext == applyBadge

TierSpec == TierInit /\ [][TierNext]_vars

(***************************************************************************)
(* equalVals and the row flag of part_000 on their own: one call on a key  *)
(* and two values drawn from EqValues                                      *)
(***************************************************************************)
\* values a payload can carry for a key: absent, null, empty, numbers, numbers
\* as strings, words
EqValues ==
  {Undef, NullV, Str(<<>>), Num(0), Num(7), Num(100), Str(<<"0">>),
   Str(<<"1", "0", "0">>), Str(<<"abc">>), Str(<<"Leafling">>), Str(<<"Vine Crawler">>)}

EqInit ==
  /\ Loaded("p0")
  /\ tierIn = Undef
  /\ tierOut = <<>>
  /\ eqIn \in [k : KeySet("p0"), a : EqValues, b : EqValues]
  /\ eqOut = <<>>

\* one row of renderTable(data): equalVals on the two values, and the flag
renderRow ==
  /\ eqOut = <<>>
  /\ eqOut' = <<[equal |-> equalVals(eqIn.k, eqIn.a, eqIn.b),
                 diff |-> rowDiff(eqIn.k, eqIn.a, eqIn.b)]>>
  /\ UNCHANGED <<rev, walletInfo, last, updating, sinceClick, btnUpdate,
                 btnConnectShown, statusEl, tableEl, connects, fetches, sends, timers,
                 out, sinceInvoke, tierIn, tierOut, eqIn>>

EqNext == renderRow

EqSpec == EqInit /\ [][EqNext]_vars

(***************************************************************************)
(* Properties                                                              *)
(***************************************************************************)
\* the update button can be clicked by the user
UpdateEnabled == btnUpdate.display /\ ~btnUpdate.disabled

\* the scores at which the tier is documented to change
Boundaries == {500, 1500, 3000, 5000, 10000}

\* the band of a non-negative score: 1 + the number of boundaries it has reached
Band(n) == 1 + Cardinality({b \in Boundaries : b <= n})

TierIndex(t) == CHOOSE i \in 1..6 : TierKeys[i] = t.key

\* C1  Ownership on submission.  Every step that calls sendTransaction ends in a
\* state where a comparison result and a wallet session are stored and the
\* session address equals the result's address.
C1_OwnershipOnSubmission ==
  [][sends' > sends =>
       /\ last' # <<>>
       /\ walletInfo' # <<>>
       /\ walletInfo'[1].address = last'[1].address]_vars

\* C1 witness: an update click has just submitted a transaction
C1_Witness ==
  /\ out.op = "update"
  /\ out.res = "sent"
  /\ sends = 1
  /\ walletInfo[1].address = last[1].address

\* C2  Mutual exclusion of updates: never two sendTransaction calls in flight.
C2_SingleSubmission == sends <= 1

\* C3  Debounce.  An update invoked less than DEBOUNCE_MS after the previous
\* update invocation is a no-op: no sendTransaction, no connect, no alert, and
\* the debounce timestamp, busy flag, session and stored result stay as they were.
C3_Debounce ==
  [][(out'.op = "update" /\ sinceInvoke' = 0 /\ sinceInvoke < DEBOUNCE_MS) =>
       /\ out'.tx = <<>>
       /\ ~out'.conn
       /\ out'.alert = ""
       /\ sends' = sends
       /\ UNCHANGED <<sinceClick, updating, walletInfo, last>>]_vars

\* C4  Enablement decision.  Right after a compare completed successfully, the
\* update button is enabled iff a result is stored, some tracked key differs
\* (numeric-aware) and the connected wallet address equals the compared address.
C4_EnablementDecision ==
  out.op = "compareResolve" =>
    (UpdateEnabled <=>
       /\ last # <<>>
       /\ \E k \in KeySet(rev) :
            ~equalVals(k, offchain(last[1])[k], onchain(last[1])[k])
       /\ walletMatches(last[1]))

\* C5  Enablement invariant over time.  Whenever the update button is shown and
\* not disabled, a result is stored and the session address equals its address.
C5_EnabledImpliesOwner ==
  UpdateEnabled =>
    /\ last # <<>>
    /\ walletInfo # <<>>
    /\ walletInfo[1].address = last[1].address

\* C6  Ownership rejection.  An update invoked while the connected address A
\* differs from the stored compared address B shows a message naming both A and
\* B, calls no sendTransaction, schedules no re-compare and leaves the busy flag
\* false.
C6_OwnershipRejection ==
  [][(/\ out'.op = "update"
      /\ sinceInvoke' = 0
      /\ walletInfo # <<>>
      /\ last # <<>>
      /\ last[1].address # ""
      /\ walletInfo[1].address # last[1].address) =>
       /\ out'.alert # ""
       /\ {walletInfo[1].address, last[1].address} \subseteq out'.names
       /\ out'.tx = <<>>
       /\ sends' = sends
       /\ timers' = timers
       /\ ~updating']_vars

\* C7  Nothing to update.  An update that passes the ownership check on a
\* result whose off-chain and on-chain values are identical for every tracked
\* key reports "Nothing to update." and calls no sendTransaction.
C7_NothingToUpdate ==
  (/\ out.op = "update"
   /\ out.res \in {"sent", "nothing"}
   /\ \A k \in KeySet(rev) : offchain(last[1])[k] = onchain(last[1])[k])
  => (statusEl = "Nothing to update." /\ out.tx = <<>>)

\* the chain-side field names as the key-translation table documents them
ChainName(k) ==
  IF k = "Transaction Volume" THEN "Trx Volume"
  ELSE IF k = "Bridge Volume" THEN "Xian Bridged"
  ELSE k

\* numeric-aware difference of the two values of key k in payload l: numbers
\* after coercion with an absent value as zero, Tier as a string
Differs(l, k) ==
  LET a == offchain(l)[k]
      b == onchain(l)[k]
      num(v) == IF v.t \in {"undefined", "null"} \/ v = Str(<<>>) THEN Num(0) ELSE Number(v)
      text(v) == IF v.t \in {"undefined", "null"} THEN <<>> ELSE String(v)
  IN IF k = "Tier" THEN text(a) # text(b)
     ELSE ~(num(a).t = "number" /\ num(a) = num(b))

\* the off-chain value of key k as the batch carries it: its string, "" if absent
Carried(l, k) ==
  LET v == offchain(l)[k] IN IF v.t \in {"undefined", "null"} THEN <<>> ELSE String(v)

\* the tier name documented for the off-chain Score of payload l
ExpectedTier(l) ==
  LET v == offchain(l)["Score"]
      n == IF v.t = "number" THEN v.n
           ELSE IF v.t = "string" /\ v.s # <<>> /\ \A i \in 1..Len(v.s) : IsDigit(v.s[i])
                THEN ParseDigits(v.s, 0)
           ELSE 0
  IN <<TierNames[Band(n)]>>

\* a batched update (part_000) has just been submitted
BatchSent == rev = "p0" /\ out.op = "update" /\ out.res = "sent"

\* C8 as stated: the batch of an accepted batched update has, for every tracked
\* key that differs, an entry under its chain-side name holding the off-chain
\* value, no entry for a key whose values are equal, and a Tier entry derived
\* from the off-chain Score.
C8_FieldSetAsStated ==
  BatchSent =>
    LET l == last[1]
        batch == out.tx[1].payload.batch
    IN /\ Len(out.tx) = 1 /\ sends >= 1
       /\ \A k \in KeySet("p0") :
            IF Differs(l, k)
            THEN ChainName(k) \in DOMAIN batch /\ batch[ChainName(k)] = Carried(l, k)
            ELSE ChainName(k) \notin DOMAIN batch
       /\ "Tier" \in DOMAIN batch /\ batch["Tier"] = ExpectedTier(l)

\* C8 amended: the same for every tracked key other than Tier; the batch has no
\* other entry than these and Tier, and its Tier entry is the tier derived from
\* the off-chain Score whether or not the stored Tier values differ.
C8_FieldSet ==
  BatchSent =>
    LET l == last[1]
        batch == out.tx[1].payload.batch
        others == KeySet("p0") \ {"Tier"}
    IN /\ Len(out.tx) = 1 /\ sends >= 1
       /\ \A k \in others :
            IF Differs(l, k)
            THEN ChainName(k) \in DOMAIN batch /\ batch[ChainName(k)] = Carried(l, k)
            ELSE ChainName(k) \notin DOMAIN batch
       /\ DOMAIN batch = {ChainName(k) : k \in {x \in others : Differs(l, x)}} \cup {"Tier"}
       /\ batch["Tier"] = ExpectedTier(l)

\* C8 witness: off-chain Score 120 against on-chain 100 (and Transaction Volume
\* 7 against 5) was submitted as Score "120", Trx Volume "7" and the tier of 120
C8_Witness ==
  /\ BatchSent
  /\ last[1].body = "scoreDiff"
  /\ out.tx[1].payload.batch["Score"] = <<"1", "2", "0">>
  /\ out.tx[1].payload.batch["Trx Volume"] = <<"7">>
  /\ out.tx[1].payload.batch["Tier"] = <<"Leafling">>

\* C9  Tier derivation over numeric scores.  For a non-negative score the
\* result is one of the six tiers, namely the one of the band the score lies in
\* (bands split at 500, 1500, 3000, 5000, 10000); against the score below it
\* the tier index never decreases and changes exactly at a boundary.
C9_TierBands ==
  (tierOut # <<>> /\ tierIn.t = "number" /\ tierIn.n >= 0) =>
    LET t == tierOut[1]
        s == tierIn.n
    IN /\ Cardinality({i \in 1..6 : Tier(i) = t}) = 1
       /\ TierIndex(t) = Band(s)
       /\ s > 0 =>
            LET below == TierIndex(tierFromScore(Num(s - 1))) IN
              /\ below <= TierIndex(t)
              /\ (below # TierIndex(t)) <=> (s \in Boundaries)

\* C9 witness: score 500 was mapped to the second tier (499 maps to the first)
C9_Witness ==
  /\ tierOut # <<>>
  /\ tierIn = Num(500)
  /\ tierOut[1].key = "vine-crawler"
  /\ tierFromScore(Num(499)).key = "leafling"

\* C10  Tier derivation on bad input.  An absent score (undefined, null, empty)
\* or a string that is no number gets the lowest tier, the tier of score 0.
C10_BadInputLowestTier ==
  (/\ tierOut # <<>>
   /\ \/ tierIn.t \in {"undefined", "null"}
      \/ tierIn.t = "string" /\ ~(tierIn.s # <<>> /\ \A i \in 1..Len(tierIn.s) : IsDigit(tierIn.s[i])))
  => (tierOut[1].key = "leafling" /\ tierOut[1] = tierFromScore(Num(0)))

\* C11  Busy-flag release.  The busy flag is set only while a sendTransaction
\* call of an update is in flight: it is false whenever none is, it is false
\* right after the submission resolved or rejected, and an update is turned
\* away as busy only while a submission is in flight.
C11_BusyFlagRelease ==
  /\ updating => sends > 0
  /\ (rev # "p0" /\ sends > 0) => updating
  /\ out.op \in {"sendResolve", "sendReject"} => ~updating
  /\ (out.op = "update" /\ out.res = "busy") => sends > 0

\* C11 witness: a submission of public/app.js was just rejected and the flag is
\* released, with no submission left in flight
C11_Witness ==
  /\ rev = "app"
  /\ out.op = "sendReject"
  /\ out.alert = "Failed to send transaction."
  /\ ~updating
  /\ sends = 0

\* C12  Transaction failure handling.  A step in which sendTransaction rejects
\* shows the user an alert or a new status message, schedules no re-compare and
\* makes no further sendTransaction call.
C12_TransactionFailure ==
  [][(out'.op = "sendReject" /\ sends' < sends) =>
       /\ out'.alert # "" \/ statusEl' # statusEl
       /\ timers' = timers
       /\ out'.tx = <<>>
       /\ sends' = sends - 1]_vars

\* C13  Compare API failure.  Right after the fetch or the JSON parse of a
\* compare rejected, the status is the API-error text, the table shows no
\* result rows, and the update button is hidden and disabled.
C13_CompareFailure ==
  out.op = "compareReject" =>
    /\ statusEl = "Failed to compare traits (API error)."
    /\ tableEl.kind # "rows"
    /\ ~btnUpdate.display
    /\ btnUpdate.disabled

\* C14  Missing input.  A compare whose address field is empty or blank, with
\* no wallet session, alerts and starts no fetch, leaving the stored result, the
\* table, the status and the update button as they were; with a session it
\* queries the session address; a field holding an address queries that address.
C14_MissingInput ==
  [][out'.op \in {"compare", "timer"} =>
       LET typed == trim(out'.arg) IN
         IF typed = "" /\ walletInfo = <<>>
         THEN /\ out'.alert = "Enter an address or connect wallet first."
              /\ UNCHANGED <<fetches, last, tableEl, statusEl, btnUpdate>>
         ELSE /\ out'.alert = ""
              /\ fetches' =
                   [fetches EXCEPT ![IF typed = "" THEN walletInfo[1].address ELSE typed] = @ + 1]]_vars

\* C14 witness: with a session for addrA and the field holding addrB between
\* blanks, the compare queried addrB
C14_Witness ==
  /\ out.op = "compare"
  /\ out.arg = <<" ", "addrB", " ">>
  /\ walletInfo = <<[address |-> "addrA"]>>
  /\ fetches = [addrA |-> 0, addrB |-> 1]

\* the state the script keeps and shows, apart from the wallet session
PageState == <<last, updating, sinceClick, btnUpdate, btnConnectShown, statusEl, tableEl>>

\* C15  Connect outcome.  A connect whose requestWalletInfo rejects shows a
\* warning and changes nothing: the session (none or an existing one), the
\* stored result and the page stay as they were.  A connect that succeeds
\* stores the new session in place of the old one.  No connect step, however
\* often repeated, changes the stored result or submits or schedules anything.
C15_ConnectOutcome ==
  [][/\ out'.op = "connectReject" =>
          /\ out'.alert = "Wallet not detected or not responding."
          /\ UNCHANGED <<walletInfo, PageState>>
     /\ out'.op = "connectResolve" =>
          /\ \E a \in Addr : walletInfo' = <<[address |-> a]>>
          /\ statusEl' = "Connected"
     /\ out'.op \in {"connect", "connectResolve", "connectReject"} =>
          UNCHANGED <<last, sends, timers, fetches, updating>>]_vars

\* C15 witness: a connect failed while a session and a compared result were
\* stored, and both are still there
C15_Witness ==
  /\ out.op = "connectReject"
  /\ walletInfo = <<[address |-> "addrA"]>>
  /\ last # <<>>
  /\ last[1].address = "addrB"

\* no comparison result is stored: nothing, or an object without an address
\* (an error answer), which is what "!last || !last.address" tests
NoResult == last = <<>> \/ last[1].address = ""

\* C16  Update precondition order.  An update invoked with no comparison result
\* stored (and not dropped by the debounce or the busy flag) alerts "Compare
\* first.", attempts no connect, makes no sendTransaction call, and is not
\* reported as an ownership mismatch.
C16_PreconditionOrder ==
  [][(/\ out'.op = "update"
      /\ sinceInvoke' = 0
      /\ out'.res \notin {"debounced", "busy"}
      /\ NoResult) =>
       /\ out'.alert = "Compare first."
       /\ out'.res = "compareFirst"
       /\ ~out'.conn
       /\ out'.tx = <<>>
       /\ sends' = sends]_vars

\* C17  One-shot re-compare.  A step in which a submission resolves schedules
\* exactly one automatic compare, and nothing else ever schedules one (no
\* rejected update, no rejected submission, no compare); a scheduled compare
\* eventually runs and fetches; the automatic compare submits nothing; only an
\* update click submits, and it submits at most one transaction.
C17_OneShotRecompare ==
  /\ [][/\ (out'.op = "sendResolve" /\ sends' < sends) => timers' = timers + 1
        /\ timers' > timers => (out'.op = "sendResolve" /\ sends' = sends - 1)
        /\ out'.op = "timer" =>
             /\ out'.res = "fetching"
             /\ sends' = sends /\ out'.tx = <<>>
             /\ timers' = timers - 1
        /\ sends' > sends =>
             (out'.op \in {"update", "updateResumed"} /\ sends' = sends + 1)]_vars
  /\ (timers > 0) ~> (out.op = "timer" /\ out.res = "fetching")

\* C17 witness: the compare scheduled by a resolved submission is running, with
\* no submission and no further timer outstanding
C17_Witness ==
  /\ out.op = "timer"
  /\ out.res = "fetching"
  /\ timers = 0
  /\ sends = 0
  /\ FetchCount = 1

\* C18  Update disabled pending new data.  While at least one compare fetch is
\* in flight, the update button cannot be used: it is hidden or disabled.
C18_DisabledWhileComparing == FetchCount > 0 => ~UpdateEnabled

\* C19  Debounce counts accepted invocations only.  An update invocation that
\* is rejected (by the busy flag, the missing-result check, a failed connect or
\* the ownership check) leaves the debounce timestamp as it was: it starts no
\* new window of DEBOUNCE_MS.
C19_RejectedStartsNoWindow ==
  [][(/\ out'.op = "update"
      /\ sinceInvoke' = 0
      /\ out'.res \in {"busy", "compareFirst", "mismatch", "awaitConnect"}) =>
       sinceClick' = sinceClick]_vars

\* C20  Single-shot rebind.  In the revisions that arm the handler inside
\* doCompare (public/app.js, part_000): the button gets a listener only in a
\* step that completes a compare with a Score difference and a matching wallet,
\* and a compare with a Score difference and another wallet leaves a button
\* without listener; every invocation of updateOnChain comes from a click on the
\* shown, enabled, armed button and uses the listener up, so a second invocation
\* needs another completed compare.
C20_SingleShotRebind ==
  [][(rev # "p1") =>
       /\ (btnUpdate'.armed /\ ~btnUpdate.armed) =>
            /\ out'.op = "compareResolve"
            /\ "Score" \in diffs(last'[1])
            /\ walletInfo' # <<>>
            /\ walletInfo'[1].address = last'[1].address
       /\ (out'.op = "compareResolve" /\ "Score" \in diffs(last'[1])) =>
            (btnUpdate'.armed <=>
               (walletInfo' # <<>> /\ walletInfo'[1].address = last'[1].address))
       /\ (out'.op = "update" /\ sinceInvoke' = 0) =>
            (UpdateEnabled /\ btnUpdate.armed /\ ~btnUpdate'.armed)]_vars

\* C20 witness: part_000 has submitted on a click; the button is still shown and
\* enabled but its listener is used up
C20_Witness ==
  /\ rev = "p0"
  /\ out.op = "update"
  /\ out.res = "sent"
  /\ UpdateEnabled
  /\ ~btnUpdate.armed

\* the number a value stands for: zero when absent (undefined, null, empty),
\* the number itself, the number a digit string spells; <<>> when it is none
NumberOf(v) ==
  IF v.t \in {"undefined", "null"} \/ v = Str(<<>>) THEN <<0>>
  ELSE IF v.t = "number" THEN <<v.n>>
  ELSE IF v.t = "string" /\ \A i \in 1..Len(v.s) : IsDigit(v.s[i]) THEN <<ParseDigits(v.s, 0)>>
  ELSE <<>>

\* the text a value stands for: empty when absent (undefined, null)
TextOf(v) ==
  IF v.t \in {"undefined", "null"} THEN <<>>
  ELSE IF v.t = "number" THEN DigitsOf(v.n)
  ELSE v.s

\* C21  Value equality policy.  For a key other than Tier, equalVals is true
\* exactly when both values stand for the same number, an absent value
\* standing for zero (so absent equals 0 and "100" equals 100); for Tier it is
\* true exactly when both values are the same text, an absent value standing
\* for the empty text; the row of the key is flagged exactly when equalVals is
\* false.
C21_EqualityPolicy ==
  eqOut # <<>> =>
    /\ eqOut[1].equal <=>
          IF eqIn.k = "Tier" THEN TextOf(eqIn.a) = TextOf(eqIn.b)
          ELSE NumberOf(eqIn.a) # <<>> /\ NumberOf(eqIn.a) = NumberOf(eqIn.b)
    /\ eqOut[1].diff <=> ~eqOut[1].equal

\* C21 witness: on-chain 0 against an absent off-chain DEX Volume compared
\* equal and the row is not flagged
C21_Witness ==
  /\ eqOut # <<>>
  /\ eqIn = [k |-> "DEX Volume", a |-> Undef, b |-> Num(0)]
  /\ eqOut[1].equal
  /\ ~eqOut[1].diff

\* C22  Rendered table matches stored result.  Whenever the table shows trait
\* rows, a comparison result is stored and the rows were rendered from it.
C22_TableMatchesResult ==
  tableEl.kind = "rows" => (last # <<>> /\ tableEl.data = last)

\* C23  Enabled button is live.  In public/app.js, whenever the update button
\* is shown and not disabled, a click listener is armed on it.
C23_EnabledButtonLive == (rev = "app" /\ UpdateEnabled) => btnUpdate.armed

====
